---- MODULE Spec2Model ----
(***************************************************************************)
(* State-machine model of the DirectConnection component                   *)
(* (src/components/DirectConnection.tsx): one mounted component, the       *)
(* PeerJS objects it creates (signaling peers, data connections), the      *)
(* deadline timers it arms, and the remote endpoints that talk to it.      *)
(*                                                                         *)
(* React state (useState) is one variable per hook; refs (useRef) are      *)
(* variables holding an index (0 = null).  A handler closes over the       *)
(* render in which it was created, so every object that registers          *)
(* handlers records the `mode` of that render (capMode).  State updates    *)
(* made by one event are applied in program order and the effect of        *)
(* lines 58-62 runs at the end of the same step.                           *)
(*                                                                         *)
(* String literals of the source are abbreviated:                          *)
(*   status  "init" 初期化中... | "acquiring" ID取得中... | "waiting"      *)
(*           接続待機中... | "offer" 接続要求を受信中... | "error" エラー  *)
(*           | "established" 接続確立！ | "lost" 相手との接続が切れました  *)
(*           | "commError" 通信エラーが発生しました | "establishing"       *)
(*           接続を確立しています... | "timeout" タイムアウト              *)
(*   error   "null" | "timeout" 接続がタイムアウトしました。 |             *)
(*           "connectFailed" 接続に失敗しました。... | "hostConnError"     *)
(*           接続エラーが発生しました。... | the messages of lines 113-123 *)
(***************************************************************************)
EXTENDS Integers, Sequences, FiniteSets, TLC

\* ---------------------------------------------------------------- bounds
MaxPeers == 2       \* calls of initializePeer (new Peer) in one behaviour
MaxConns == 2       \* data connections created in one behaviour
MaxMsgs  == 2       \* envelopes put on the wire in one behaviour
TickMs   == 5000    \* granularity of the clock
MaxCameraCalls == 2 \* runs of Scanner.startCamera in one behaviour
MaxLoops == 2       \* requestAnimationFrame chains started in one behaviour
MaxHandlers == 2    \* distinct onScan functions the parent passes down
MaxScans == 2       \* calls of App.handleScan in one behaviour
MaxUploads == 2     \* calls of uploadFile in one behaviour

\* ---------------------------------------------------- program constants
handshakeTimeoutMs == 10000
\* uploadService: MAX_FILE_SIZE = 50 * 1024 * 1024
MAX_FILE_SIZE == 52428800
\* Generator.handleFileSelect: the literal 50 * 1024 * 1024 of its size test
GeneratorLimit == 52428800

\* The identities a scan or an inbound offer can carry; the component never
\* reads the remote identity of a connection.
Remotes == {"r1"}

Modes == {"select", "host", "initializing_client", "scan", "connecting", "connected"}

\* ------------------------------------------------------------ the state
VARIABLES
  mode,                  \* useState<P2PMode>
  peerId,                \* useState<string|null>; 0 = null, else the id
  connection,            \* useState<DataConnection|null>; index into conns, 0 = null
  messages,              \* useState<Message[]>
  status,                \* useState(string)
  error,                 \* useState<string|null>
  peerRef,               \* useRef<Peer|null>; index into peers, 0 = null
  connectionTimeoutRef,  \* useRef<number|null>; index into timers, 0 = null
  peers,                 \* every Peer constructed so far
  conns,                 \* every DataConnection created so far
  timers,                \* every window.setTimeout armed so far
  urls,                  \* the object-URL registry (URL.createObjectURL)
  elapsed,               \* ms since the latest handleScan entered 'connecting'
  rx,                    \* history: the envelopes handed to conn.on('data')
  wire,                  \* history: the number of envelopes put on a channel
  mounted                \* the component is mounted (its cleanup has not run)

dcVars == <<mode, peerId, connection, messages, status, error, peerRef,
            connectionTimeoutRef, peers, conns, timers, urls, elapsed, rx, wire,
            mounted>>

\* The Scanner component (src/components/Scanner.tsx), one instance.
VARIABLES
  scannerMounted,        \* the instance is mounted
  isActive,              \* the isActive prop of the latest render
  onScan,                \* the onScan prop of the latest render (identity of the function)
  scanning,              \* useState(false)
  streamRef,             \* useRef<MediaStream|null>; index into streams, 0 = null
  streams,               \* every MediaStream acquired; TRUE = its tracks are live
  cameraCalls,           \* every startCamera() run: the await it is suspended at
  loops,                 \* every requestAnimationFrame(scanFrame) chain started
  activation,            \* history: how many times the instance became active
  scans                  \* history: the onScan calls made

scannerVars == <<scannerMounted, isActive, onScan, scanning, streamRef, streams,
                 cameraCalls, loops, activation, scans>>

\* The App component (src/index.tsx), receive screen.
VARIABLES
  appMode,               \* useState<AppMode>
  scannedResult,         \* useState<HistoryItem|null>; NoItem = null
  isAnalyzing,           \* useState(false)
  history,               \* useState<HistoryItem[]>, newest first
  analyses               \* every handleScan call: its data and whether its await is pending

appVars == <<appMode, scannedResult, isAnalyzing, history, analyses>>

\* The upload service (uploadFile) and the Generator component
\* (src/components/Generator.tsx) that calls it.
VARIABLES
  uploads,               \* every uploadFile call: its arguments and where it stands
  input,                 \* Generator useState('')
  isUploading,           \* Generator useState(false)
  generatedQR,           \* Generator useState<string|null>; "null" = null
  fileError,             \* Generator useState<string|null>; "null" = null
  uploadStatus,          \* Generator useState<string|null>; "null" = null
  saved                  \* history: the onSave calls of the Generator

uploadVars == <<uploads, input, isUploading, generatedQR, fileError, uploadStatus, saved>>

vars == <<dcVars, scannerVars, appVars, uploadVars>>

\* What an action of one component leaves alone.
outsideDC == <<scannerVars, appVars, uploadVars>>
outsideScanner == <<dcVars, appVars, uploadVars>>
outsideApp == <<dcVars, scannerVars, uploadVars>>
outsideUpload == <<dcVars, scannerVars, appVars>>

\* The React state as one value, so that handlers compose in program order.
UI == [mode |-> mode, peerId |-> peerId, connection |-> connection,
       messages |-> messages, status |-> status, error |-> error, urls |-> urls]

Min(a, b) == IF a < b THEN a ELSE b
Max(a, b) == IF a > b THEN a ELSE b

\* ------------------------------------------------------- wire envelopes
NoBytes == <<>>

TextEnvelope(inputText) ==
  [type |-> "text", content |-> inputText, file |-> NoBytes,
   fileName |-> "", fileType |-> "", fileSize |-> 0]

FileEnvelope(f) ==
  [type |-> "file", content |-> "", file |-> f.bytes,
   fileName |-> f.name, fileType |-> f.type, fileSize |-> Len(f.bytes)]

\* What the user can type, and the files the user can pick.
Texts == {"hi"}
Blank == " "
Trim(t) == IF t = Blank THEN "" ELSE t
Files == { [name |-> "a.txt", type |-> "text/plain", bytes |-> <<1, 2>>] }

\* Envelopes a remote endpoint can put on the channel: those built by
\* sendMessage / sendFile, and those of a peer that does not run this code.
WellFormed == {TextEnvelope(t) : t \in Texts} \cup {FileEnvelope(f) : f \in Files}
Malformed ==
  { [type |-> "file", content |-> "", file |-> <<7>>,
     fileName |-> "c.bin", fileType |-> "application/octet-stream", fileSize |-> 2],
    [type |-> "ping", content |-> "", file |-> NoBytes,
     fileName |-> "", fileType |-> "", fileSize |-> 0] }
RemoteEnvelopes == WellFormed \cup Malformed

\* -------------------------------------------------------------- messages
NoFile == [name |-> "", size |-> 0, type |-> "", blobUrl |-> 0]

\* Mutant: the new message is put in front of the log.
addMessagePrepends(s, sender, type, content, fileData) ==
  [s EXCEPT !.messages = <<[id |-> Len(@) + 1, sender |-> sender,
                            type |-> type, content |-> content,
                            fileData |-> fileData]>> \o @]

\* addMessage: append one message with a fresh id.
addMessage(s, sender, type, content, fileData) ==
  [s EXCEPT !.messages = Append(@, [id |-> Len(@) + 1, sender |-> sender,
                                     type |-> type, content |-> content,
                                     fileData |-> fileData])]

\* Mutant: the text branch appends the message as a local one.
OnDataAsLocal(s, data) ==
  IF data.type = "text" THEN addMessage(s, "me", "text", data.content, NoFile)
  ELSE IF data.type = "file" THEN
    LET s1 == [s EXCEPT !.urls = Append(@, data.file)]
    IN addMessage(s1, "peer", "file", "",
                  [name |-> data.fileName, size |-> data.fileSize,
                   type |-> data.fileType, blobUrl |-> Len(s1.urls)])
  ELSE s

\* conn.on('data') of handleConnection.
OnData(s, data) ==
  IF data.type = "text" THEN addMessage(s, "peer", "text", data.content, NoFile)
  ELSE IF data.type = "file" THEN
    LET s1 == [s EXCEPT !.urls = Append(@, data.file)]   \* new Blob + createObjectURL
        url == Len(s1.urls)
    IN addMessage(s1, "peer", "file", "",
                  [name |-> data.fileName, size |-> data.fileSize,
                   type |-> data.fileType, blobUrl |-> url])
  ELSE s

\* ------------------------------------------------------- event handlers
\* conn.on('close') registered by peer.on('connection'); m is the mode of
\* the render that called initializePeer.
OnHostConnClose(s, m) ==
  IF m # "connected" THEN [s EXCEPT !.status = "waiting"] ELSE s

\* conn.on('error') registered by peer.on('connection').
OnHostConnError(s) == [s EXCEPT !.error = "hostConnError", !.status = "error"]

\* Mutant: the close handler keeps the channel reference.
OnConnCloseKeeps(s) == [s EXCEPT !.status = "lost", !.mode = "select"]

\* conn.on('close') registered by handleConnection.
OnConnClose(s) == [s EXCEPT !.status = "lost", !.connection = 0, !.mode = "select"]

\* conn.on('error') registered by handleConnection.
OnConnError(s) == [s EXCEPT !.status = "commError"]

\* conn.on('error') registered by handleScan.
OnScanConnError(s) == [s EXCEPT !.error = "connectFailed", !.mode = "select"]

\* The state updates of handleConnection(conn).
OnHandleConnection(s, c) ==
  [s EXCEPT !.connection = c, !.mode = "connected",
            !.status = "established", !.error = "null"]

\* The 'close' event of connection c, handlers in registration order.
EmitClose(s, c) ==
  LET s1 == IF conns[c].dir = "in"
            THEN OnHostConnClose(s, peers[conns[c].peer].capMode) ELSE s
  IN OnConnClose(s1)

\* The 'error' event of connection c, handlers in registration order.
EmitError(s, c) ==
  LET s1 == IF conns[c].dir = "in" THEN OnHostConnError(s) ELSE OnScanConnError(s)
  IN IF conns[c].st = "open" THEN OnConnError(s1) ELSE s1

\* DataConnection.close(): a closed connection stays closed; 'close' is
\* emitted only when the connection was open.
CloseConn(s, c) == IF conns[c].st = "open" THEN EmitClose(s, c) ELSE s

\* Mutant: close() leaves the connection as it was.
NotClosed(conn) == conn

\* A closed connection: its buffers are gone with it.
Closed(conn) == [conn EXCEPT !.st = "closed", !.inq = <<>>, !.rsent = <<>>, !.outq = <<>>]

\* Peer.destroy(): close every connection of peer p, in creation order.
RECURSIVE DestroyFrom(_, _, _)
DestroyFrom(s, p, c) ==
  IF c > Len(conns) THEN s
  ELSE DestroyFrom(IF conns[c].peer = p THEN CloseConn(s, c) ELSE s, p, c + 1)

DestroyUI(s, p) == IF p # 0 /\ peers[p].live THEN DestroyFrom(s, p, 1) ELSE s

\* Mutant: destroy() leaves the connections of the peer alone.
ConnsNotClosed(p) == conns

ConnsAfterDestroy(p) ==
  [c \in 1..Len(conns) |->
     IF p # 0 /\ conns[c].peer = p
     THEN Closed(conns[c]) ELSE conns[c]]

\* Mutant: the previous peer is left alive.
PeersNotDestroyed(p) == peers

PeersAfterDestroy(p) ==
  [q \in 1..Len(peers) |-> IF q = p THEN [peers[q] EXCEPT !.live = FALSE] ELSE peers[q]]

\* useEffect of lines 58-62.
Effects(s) ==
  IF s.mode = "initializing_client" /\ s.peerId # 0
  THEN [s EXCEPT !.mode = "scan"] ELSE s

\* Commit a React state; the updates of a handler that runs after the
\* component was unmounted are dropped.
Commit(s) ==
  LET t == IF mounted THEN Effects(s) ELSE UI IN
  /\ mounted' = mounted
  /\ UNCHANGED outsideDC
  /\ mode' = t.mode
  /\ peerId' = t.peerId
  /\ connection' = t.connection
  /\ messages' = t.messages
  /\ status' = t.status
  /\ error' = t.error
  /\ urls' = t.urls

\* The Scanner before its parent renders it.
InitScanner ==
  /\ scannerMounted = FALSE
  /\ isActive = FALSE
  /\ onScan = 1
  /\ scanning = FALSE
  /\ streamRef = 0
  /\ streams = <<>>
  /\ cameraCalls = <<>>
  /\ loops = <<>>
  /\ activation = 0
  /\ scans = <<>>

\* null of HistoryItem | null.
NoItem == [id |-> "null", content |-> "", type |-> "", aiAnalysis |-> ""]

\* The App on the home screen with an empty history.
InitApp ==
  /\ appMode = "HOME"
  /\ scannedResult = NoItem
  /\ isAnalyzing = FALSE
  /\ history = <<>>
  /\ analyses = <<>>

\* The Generator as mounted, no upload made.
InitUpload ==
  /\ uploads = <<>>
  /\ input = ""
  /\ isUploading = FALSE
  /\ generatedQR = "null"
  /\ fileError = "null"
  /\ uploadStatus = "null"
  /\ saved = <<>>

Init ==
  /\ InitScanner
  /\ InitApp
  /\ InitUpload
  /\ mode = "select"
  /\ peerId = 0
  /\ connection = 0
  /\ messages = <<>>
  /\ status = "init"
  /\ error = "null"
  /\ peerRef = 0
  /\ connectionTimeoutRef = 0
  /\ peers = <<>>
  /\ conns = <<>>
  /\ timers = <<>>
  /\ urls = <<>>
  /\ elapsed = 0
  /\ rx = <<>>
  /\ wire = 0
  /\ mounted = TRUE

\* --------------------------------------------------------- user actions
\* initializePeer(): destroy the peer in peerRef, construct a new one.
initializePeer(s) ==
  /\ Len(peers) < MaxPeers
  /\ peers' = Append(PeersAfterDestroy(peerRef),
                     [live |-> TRUE, opened |-> FALSE, capMode |-> mode])
  /\ conns' = ConnsAfterDestroy(peerRef)
  /\ peerRef' = Len(peers) + 1
  /\ Commit(DestroyUI(s, peerRef))
  /\ UNCHANGED <<connectionTimeoutRef, timers, elapsed, rx, wire>>

startHosting ==
  /\ mounted
  /\ mode = "select"
  /\ initializePeer([UI EXCEPT !.mode = "host", !.status = "acquiring", !.error = "null"])

startScanning ==
  /\ mounted
  /\ mode = "select"
  /\ initializePeer([UI EXCEPT !.mode = "initializing_client", !.error = "null"])

\* The ID-regenerate button of the host screen.
regenerate ==
  /\ mounted
  /\ mode = "host"
  /\ status # "init"
  /\ initializePeer(UI)

\* resetConnection().
resetConnection ==
  /\ mounted
  /\ peers' = PeersAfterDestroy(peerRef)
  /\ conns' = ConnsAfterDestroy(peerRef)
  /\ Commit([DestroyUI(UI, peerRef) EXCEPT !.mode = "select", !.peerId = 0,
                                           !.connection = 0, !.error = "null"])
  /\ UNCHANGED <<peerRef, connectionTimeoutRef, timers, elapsed, rx, wire>>

\* The screens that show a button bound to resetConnection.
ResetModes == {"initializing_client", "host", "scan", "connecting"}

resetClick ==
  /\ mode \in ResetModes
  /\ resetConnection

\* handleScan(scannedId), called by the Scanner of the 'scan' screen.
NewTimer(c) ==
  [conn |-> c, remaining |-> handshakeTimeoutMs, st |-> "armed", capMode |-> mode]

\* Mutant: the scanned text is trimmed before it is used as the identity.
handleScanTrimmed(scannedId) ==
  /\ mounted
  /\ mode = "scan"
  /\ IF peerRef = 0 \/ peerId = 0 \/ scannedId = ""
     THEN UNCHANGED vars
     ELSE /\ peers[peerRef].live
          /\ Len(conns) < MaxConns
          /\ conns' = Append(conns, [peer |-> peerRef, remote |-> IF scannedId = " r1 " THEN "r1" ELSE scannedId, dir |-> "out",
                                     reliable |-> TRUE,
                                     st |-> "pending", inq |-> <<>>, rsent |-> <<>>,
                                     outq |-> <<>>])
          /\ timers' = Append(timers, NewTimer(Len(conns) + 1))
          /\ connectionTimeoutRef' = Len(timers) + 1
          /\ elapsed' = 0
          /\ Commit([UI EXCEPT !.mode = "connecting", !.status = "establishing"])
          /\ UNCHANGED <<peerRef, peers, rx, wire>>

handleScan(scannedId) ==
  /\ mounted
  /\ mode = "scan"
  /\ IF peerRef = 0 \/ peerId = 0 \/ scannedId = ""
     THEN UNCHANGED vars
     ELSE /\ peers[peerRef].live
          /\ Len(conns) < MaxConns
          /\ conns' = Append(conns, [peer |-> peerRef, remote |-> scannedId, dir |-> "out",
                                     reliable |-> TRUE,
                                     st |-> "pending", inq |-> <<>>, rsent |-> <<>>,
                                     outq |-> <<>>])
          /\ timers' = Append(timers, NewTimer(Len(conns) + 1))
          /\ connectionTimeoutRef' = Len(timers) + 1
          /\ elapsed' = 0
          /\ Commit([UI EXCEPT !.mode = "connecting", !.status = "establishing"])
          /\ UNCHANGED <<peerRef, peers, rx, wire>>

\* Mutant: the text is transmitted and the log is left as it was.
sendMessageNoEcho(inputText) ==
  /\ mounted
  /\ mode = "connected"
  /\ IF Trim(inputText) = "" \/ connection = 0
     THEN UNCHANGED vars
     ELSE /\ conns[connection].st = "open"
          /\ wire < MaxMsgs
          /\ wire' = wire + 1
          /\ conns' = [conns EXCEPT ![connection].outq = Append(@, TextEnvelope(inputText))]
          /\ Commit(UI)
          /\ UNCHANGED <<peerRef, connectionTimeoutRef, peers, timers, elapsed, rx>>

\* sendMessage(), with the text typed into the input box.
sendMessage(inputText) ==
  /\ mounted
  /\ mode = "connected"
  /\ IF Trim(inputText) = "" \/ connection = 0
     THEN UNCHANGED vars
     ELSE /\ conns[connection].st = "open"
          /\ wire < MaxMsgs
          /\ wire' = wire + 1
          /\ conns' = [conns EXCEPT ![connection].outq = Append(@, TextEnvelope(inputText))]
          /\ Commit(addMessage(UI, "me", "text", inputText, NoFile))
          /\ UNCHANGED <<peerRef, connectionTimeoutRef, peers, timers, elapsed, rx>>

\* sendFile(e), with the file picked in the file input.
sendFile(file) ==
  /\ mounted
  /\ mode = "connected"
  /\ IF connection = 0
     THEN UNCHANGED vars
     ELSE /\ conns[connection].st = "open"
          /\ wire < MaxMsgs
          /\ wire' = wire + 1
          /\ conns' = [conns EXCEPT ![connection].outq = Append(@, FileEnvelope(file))]
          /\ LET s1 == [UI EXCEPT !.urls = Append(@, file.bytes)]
             IN Commit(addMessage(s1, "me", "file", "",
                                  [name |-> file.name, size |-> Len(file.bytes),
                                   type |-> file.type, blobUrl |-> Len(s1.urls)]))
          /\ UNCHANGED <<peerRef, connectionTimeoutRef, peers, timers, elapsed, rx>>

\* ------------------------------------------------- signaling-peer events
\* peer.on('open'): the signaling service issues the identity of peer p.
\* The identity of the p-th peer is the number p.
PeerOpen(p) ==
  /\ peers[p].live /\ ~peers[p].opened
  /\ peers' = [peers EXCEPT ![p].opened = TRUE]
  /\ Commit(LET s1 == [UI EXCEPT !.peerId = p]
            IN IF peers[p].capMode = "host" THEN [s1 EXCEPT !.status = "waiting"] ELSE s1)
  /\ UNCHANGED <<peerRef, connectionTimeoutRef, conns, timers, elapsed, rx, wire>>

\* peer.on('error').
PeerErrorTypes ==
  {"peer-unavailable", "disconnected", "network", "browser-incompatible",
   "server-error", "webrtc"}

ErrorMsg(type) ==
  CASE type = "peer-unavailable"     -> "peerUnavailable"
    [] type = "disconnected"         -> "disconnected"
    [] type = "network"              -> "network"
    [] type = "browser-incompatible" -> "browserIncompatible"
    [] type = "server-error"         -> "serverError"
    [] OTHER                         -> "raw:" \o type

\* The peer errors the environment raises in this model.
PeerErrorInputs == {"peer-unavailable", "webrtc"}

\* Mutant: the error handler retries by constructing a new peer.
PeerErrorRetries(p, type) ==
  /\ peers[p].live
  /\ initializePeer([UI EXCEPT !.error = ErrorMsg(type)])

PeerError(p, type) ==
  /\ peers[p].live
  /\ Commit([UI EXCEPT !.error = ErrorMsg(type)])
  /\ UNCHANGED <<peerRef, connectionTimeoutRef, peers, conns, timers, elapsed, rx, wire>>

\* peer.on('connection'): remote r connects to the identity of peer p.
InboundOffer(p, r) ==
  /\ peers[p].live /\ peers[p].opened
  /\ Len(conns) < MaxConns
  /\ conns' = Append(conns, [peer |-> p, remote |-> r, dir |-> "in", reliable |-> TRUE,
                             st |-> "pending",
                             inq |-> <<>>, rsent |-> <<>>, outq |-> <<>>])
  /\ Commit([UI EXCEPT !.status = "offer"])
  /\ UNCHANGED <<peerRef, connectionTimeoutRef, peers, timers, elapsed, rx, wire>>

\* -------------------------------------------------- data-channel events
\* Mutant: handleConnection forgets the ref without clearing the timer.
TimersNotCleared == timers

\* handleConnection(conn), lines 130-133: disarm the deadline in the ref.
TimersAfterClear ==
  [t \in 1..Len(timers) |->
     IF t = connectionTimeoutRef /\ timers[t].st = "armed"
     THEN [timers[t] EXCEPT !.st = "cleared"] ELSE timers[t]]

\* conn.on('open') of peer.on('connection') and of handleScan: both call
\* handleConnection(conn).
ConnOpen(c) ==
  /\ conns[c].st = "pending"
  /\ conns' = [conns EXCEPT ![c].st = "open"]
  /\ timers' = TimersAfterClear
  /\ connectionTimeoutRef' = 0
  /\ Commit(OnHandleConnection(UI, c))
  /\ UNCHANGED <<peerRef, peers, elapsed, rx, wire>>

\* The remote endpoint (or the transport) closes an open connection.
RemoteClose(c) ==
  /\ conns[c].st = "open"
  /\ conns' = [conns EXCEPT ![c] = Closed(@)]
  /\ Commit(EmitClose(UI, c))
  /\ UNCHANGED <<peerRef, connectionTimeoutRef, peers, timers, elapsed, rx, wire>>

\* The negotiation of connection c fails: PeerJS emits 'error' on the
\* connection and then closes it.
ConnError(c) ==
  /\ conns[c].st # "closed"
  /\ conns' = [conns EXCEPT ![c] = Closed(@)]
  /\ Commit(CloseConn(EmitError(UI, c), c))
  /\ UNCHANGED <<peerRef, connectionTimeoutRef, peers, timers, elapsed, rx, wire>>

\* An open connection emits 'error' and stays open (PeerJS reports a
\* failed send this way): only the 'error' handlers run.
ConnFault(c) ==
  /\ conns[c].st = "open"
  /\ Commit(EmitError(UI, c))
  /\ UNCHANGED <<peerRef, connectionTimeoutRef, peers, conns, timers, elapsed, rx, wire>>

\* The remote endpoint of c sends an envelope.
RemoteSend(c, env) ==
  /\ conns[c].st = "open"
  /\ wire < MaxMsgs
  /\ wire' = wire + 1
  /\ conns' = [conns EXCEPT ![c].inq = Append(@, env), ![c].rsent = Append(@, env)]
  /\ UNCHANGED <<mode, peerId, connection, messages, status, error, urls, peerRef,
                 connectionTimeoutRef, peers, timers, elapsed, rx, mounted, outsideDC>>

\* Mutant: an envelope of an unknown type ends the channel.
DeliverClosesOnUnknown(c) ==
  /\ conns[c].st = "open"
  /\ conns[c].inq # <<>>
  /\ rx' = Append(rx, [conn |-> c, env |-> Head(conns[c].inq)])
  /\ IF Head(conns[c].inq).type \in {"text", "file"}
     THEN /\ conns' = [conns EXCEPT ![c].inq = Tail(@)]
          /\ Commit(OnData(UI, Head(conns[c].inq)))
     ELSE /\ conns' = [conns EXCEPT ![c] = Closed(@)]
          /\ Commit(CloseConn(UI, c))
  /\ UNCHANGED <<peerRef, connectionTimeoutRef, peers, timers, elapsed, wire>>

\* conn.on('data'): the channel delivers its oldest envelope.
Deliver(c) ==
  /\ conns[c].st = "open"
  /\ conns[c].inq # <<>>
  /\ conns' = [conns EXCEPT ![c].inq = Tail(@)]
  /\ rx' = Append(rx, [conn |-> c, env |-> Head(conns[c].inq)])
  /\ Commit(OnData(UI, Head(conns[c].inq)))
  /\ UNCHANGED <<peerRef, connectionTimeoutRef, peers, timers, elapsed, wire>>

\* ---------------------------------------------------------------- timers
\* The callback of window.setTimeout(..., 10000) of handleScan.
TimerFire(t) ==
  /\ timers[t].st = "armed"
  /\ timers[t].remaining = 0
  /\ timers' = [timers EXCEPT ![t].st = "fired"]
  /\ IF timers[t].capMode # "connected"
     THEN /\ conns' = [conns EXCEPT ![timers[t].conn].st = "closed",
                                    ![timers[t].conn].inq = <<>>]
          /\ Commit(CloseConn([UI EXCEPT !.error = "timeout", !.status = "timeout"],
                              timers[t].conn))
     ELSE /\ conns' = conns
          /\ Commit(UI)
  /\ UNCHANGED <<peerRef, connectionTimeoutRef, peers, elapsed, rx, wire>>

\* TickMs milliseconds pass.
Tick ==
  /\ \/ elapsed < handshakeTimeoutMs
     \/ \E t \in 1..Len(timers) : timers[t].st = "armed" /\ timers[t].remaining > 0
  /\ timers' = [t \in 1..Len(timers) |->
                  IF timers[t].st = "armed"
                  THEN [timers[t] EXCEPT !.remaining = Max(0, @ - TickMs)]
                  ELSE timers[t]]
  /\ elapsed' = Min(elapsed + TickMs, handshakeTimeoutMs)
  /\ UNCHANGED <<mode, peerId, connection, messages, status, error, urls, peerRef,
                 connectionTimeoutRef, peers, conns, rx, wire, mounted, outsideDC>>

\* ---------------------------------------------------------------- unmount
\* The cleanup of the effect of lines 42-50, run when the component is
\* unmounted: clear the timer in connectionTimeoutRef, close the
\* `connection` of the render that registered the effect (the first one,
\* where it is null), destroy the peer in peerRef.  The React state is
\* discarded with the component.
unmount ==
  /\ mounted
  /\ mounted' = FALSE
  /\ timers' = TimersAfterClear
  /\ peers' = PeersAfterDestroy(peerRef)
  /\ conns' = ConnsAfterDestroy(peerRef)
  /\ UNCHANGED <<mode, peerId, connection, messages, status, error, urls, peerRef,
                 connectionTimeoutRef, elapsed, rx, wire, outsideDC>>

\* ------------------------------------------------------- specifications
\* The session lifecycle: every user action and every event of the
\* signaling peer, the data connections and the timers.
Next ==
  \/ startHosting
  \/ startScanning
  \/ regenerate
  \/ resetClick
  \/ \E id \in Remotes \cup {""} : handleScan(id)
  \/ \E p \in 1..Len(peers) : PeerOpen(p)
  \/ \E p \in 1..Len(peers), type \in PeerErrorInputs : PeerError(p, type)
  \/ \E p \in 1..Len(peers), r \in Remotes : InboundOffer(p, r)
  \/ \E c \in 1..Len(conns) : ConnOpen(c)
  \/ \E c \in 1..Len(conns) : RemoteClose(c)
  \/ \E c \in 1..Len(conns) : ConnError(c)
  \/ \E c \in 1..Len(conns) : ConnFault(c)
  \/ \E t \in 1..Len(timers) : TimerFire(t)
  \/ Tick

Spec == Init /\ [][Next]_vars

\* The transfer protocol over the channels of the first session of a mounted
\* component: the actions that bring it to 'connected' and end it, and
\* every send and receive (no time passes).
\* The remote endpoints of the transfer-protocol specification.
ChatRemotes == {"r1"}

\* A start on a freshly mounted component.
firstHosting == peers = <<>> /\ startHosting
firstScanning == peers = <<>> /\ startScanning

NextChat ==
  \/ firstHosting
  \/ firstScanning
  \/ resetClick
  \/ \E id \in ChatRemotes : handleScan(id)
  \/ \E p \in 1..Len(peers) : PeerOpen(p)
  \/ \E p \in 1..Len(peers), r \in ChatRemotes : InboundOffer(p, r)
  \/ \E c \in 1..Len(conns) : ConnOpen(c)
  \/ \E c \in 1..Len(conns) : RemoteClose(c)
  \/ \E t \in Texts \cup {Blank} : sendMessage(t)
  \/ \E f \in Files : sendFile(f)
  \/ \E c \in 1..Len(conns), env \in RemoteEnvelopes : RemoteSend(c, env)
  \/ \E c \in 1..Len(conns) : Deliver(c)

SpecChat == Init /\ [][NextChat]_vars


\* resetConnection as an operation of the session, callable in every mode:
\* the lifecycle plus a reset in the two modes whose screens have no button
\* for it.
resetAnywhere ==
  /\ mode \in Modes \ ResetModes
  /\ resetConnection

NextReset == Next \/ resetAnywhere

SpecReset == Init /\ [][NextReset]_vars

\* One handshake and the traffic after it: a freshly mounted component
\* starts as host or guest, the channel opens or the deadline passes, and
\* the remote peer sends what sendMessage / sendFile build.
NextHandshake ==
  \/ firstHosting
  \/ firstScanning
  \/ \E id \in ChatRemotes : handleScan(id)
  \/ \E p \in 1..Len(peers) : PeerOpen(p)
  \/ \E p \in 1..Len(peers), r \in ChatRemotes : InboundOffer(p, r)
  \/ \E c \in 1..Len(conns) : ConnOpen(c)
  \/ \E c \in 1..Len(conns), env \in WellFormed : RemoteSend(c, env)
  \/ \E c \in 1..Len(conns) : Deliver(c)
  \/ \E t \in Texts : sendMessage(t)
  \/ \E t \in 1..Len(timers) : TimerFire(t)
  \/ Tick

SpecHandshake == Init /\ [][NextHandshake]_vars

\* The message log across sessions: a component that is started, connected,
\* disconnected, reset and started again while texts are exchanged.
NextSessions ==
  \/ startHosting
  \/ startScanning
  \/ resetClick
  \/ \E id \in ChatRemotes : handleScan(id)
  \/ \E p \in 1..Len(peers) : PeerOpen(p)
  \/ \E p \in 1..Len(peers), r \in ChatRemotes : InboundOffer(p, r)
  \/ \E c \in 1..Len(conns) : ConnOpen(c)
  \/ \E c \in 1..Len(conns) : RemoteClose(c)
  \/ \E t \in Texts : sendMessage(t)
  \/ \E c \in 1..Len(conns), env \in WellFormed : RemoteSend(c, env)
  \/ \E c \in 1..Len(conns) : Deliver(c)

SpecSessions == Init /\ [][NextSessions]_vars

\* The texts jsQR can decode from a frame ("" = no code in the frame).
QrPayloads == Remotes \cup {" r1 ", ""}

\* Scanner.scanFrame on a frame whose decoded text is `data`: a non-empty
\* text is handed to onScan, which is handleScan.
scanFrame(data) ==
  /\ mode = "scan"
  /\ data # ""
  /\ handleScan(data)

\* The guest from its start to the end of its attempt, with the scanner
\* feeding handleScan.
NextScan ==
  \/ startScanning
  \/ resetClick
  \/ \E data \in QrPayloads : scanFrame(data)
  \/ \E p \in 1..Len(peers) : PeerOpen(p)
  \/ \E p \in 1..Len(peers), type \in PeerErrorInputs : PeerError(p, type)
  \/ \E c \in 1..Len(conns) : ConnOpen(c)
  \/ \E c \in 1..Len(conns) : RemoteClose(c)
  \/ \E c \in 1..Len(conns) : ConnError(c)
  \/ \E t \in 1..Len(timers) : TimerFire(t)
  \/ Tick

SpecScan == Init /\ [][NextScan]_vars

\* The lifecycle of a component that its parent can close at any moment
\* (the close button of the header calls onClose, which unmounts it).
NextUnmount == Next \/ unmount

SpecUnmount == Init /\ [][NextUnmount]_vars

\* ---------------------------------------------------------------- Scanner
\* The <video> and <canvas> elements exist (the refs are non-null) while the
\* instance is mounted and rendered with isActive.
VideoRef == scannerMounted /\ isActive

\* cleanup(): setScanning(false), stop the tracks of the stream in
\* streamRef, forget it.
StreamsAfterCleanup ==
  [k \in 1..Len(streams) |-> IF k = streamRef THEN FALSE ELSE streams[k]]

cleanup ==
  /\ scanning' = FALSE
  /\ streams' = StreamsAfterCleanup
  /\ streamRef' = 0

\* startCamera() up to its first await: cleanup(), then getUserMedia is
\* pending.
startCamera ==
  /\ Len(cameraCalls) < MaxCameraCalls
  /\ cleanup
  /\ cameraCalls' = Append(cameraCalls, "getUserMedia")

\* The parent renders the Scanner for the first time; the effect on
\* [isActive] runs.
mountScanner(active) ==
  /\ ~scannerMounted /\ activation = 0
  /\ scannerMounted' = TRUE
  /\ isActive' = active
  /\ activation' = IF active THEN 1 ELSE 0
  /\ IF active THEN startCamera ELSE cleanup /\ cameraCalls' = cameraCalls
  /\ UNCHANGED <<onScan, loops, scans, outsideScanner>>

\* The parent renders the Scanner with another isActive: the cleanup of the
\* effect on [isActive] runs, then the effect.
setActive(active) ==
  /\ scannerMounted /\ isActive # active
  /\ isActive' = active
  /\ activation' = IF active THEN activation + 1 ELSE activation
  /\ IF active THEN startCamera ELSE cleanup /\ cameraCalls' = cameraCalls
  /\ UNCHANGED <<scannerMounted, onScan, loops, scans, outsideScanner>>

\* The parent removes the Scanner: the cleanup of the effect runs.
unmountScanner ==
  /\ scannerMounted
  /\ scannerMounted' = FALSE
  /\ cleanup
  /\ UNCHANGED <<isActive, onScan, cameraCalls, loops, activation, scans, outsideScanner>>

\* The parent renders again with the same isActive; its onScan is a new
\* function, so scanFrame is a new callback and the effect on
\* [scanning, scanFrame] runs: requestAnimationFrame(scanFrame) if scanning.
parentRender ==
  /\ scannerMounted
  /\ onScan < MaxHandlers
  /\ scanning => Len(loops) < MaxLoops
  /\ onScan' = onScan + 1
  /\ loops' = IF scanning
              THEN Append(loops, [onScan |-> onScan + 1, st |-> "pending"])
              ELSE loops
  /\ UNCHANGED <<scannerMounted, isActive, scanning, streamRef, streams, cameraCalls,
                 activation, scans, outsideScanner>>

\* getUserMedia of startCamera run k resolves: streamRef.current = stream;
\* with a video element, play() is awaited next.
getUserMediaDone(k) ==
  /\ cameraCalls[k] = "getUserMedia"
  /\ streams' = Append(streams, TRUE)
  /\ streamRef' = Len(streams) + 1
  /\ cameraCalls' = [cameraCalls EXCEPT ![k] = IF VideoRef THEN "play" ELSE "done"]
  /\ UNCHANGED <<scannerMounted, isActive, onScan, scanning, loops, activation, scans,
                 outsideScanner>>

\* play() of startCamera run k resolves: setScanning(true); when that
\* changes the state, the effect on [scanning, scanFrame] starts a loop.
playDone(k) ==
  /\ cameraCalls[k] = "play"
  /\ cameraCalls' = [cameraCalls EXCEPT ![k] = "done"]
  /\ IF scannerMounted /\ ~scanning
     THEN /\ Len(loops) < MaxLoops
          /\ scanning' = TRUE
          /\ loops' = Append(loops, [onScan |-> onScan, st |-> "pending"])
     ELSE UNCHANGED <<scanning, loops>>
  /\ UNCHANGED <<scannerMounted, isActive, onScan, streamRef, streams, activation, scans,
                 outsideScanner>>

\* The animation-frame callback of loop l (scanFrame with the `scanning`
\* and onScan of the render that started the loop).  Without the elements
\* the loop ends; when jsQR decodes a code from the frame the video element
\* holds, cleanup() and onScan(code.data) run and the loop ends; otherwise
\* the callback requests the next frame and nothing changes.
frameCallback(l) ==
  /\ loops[l].st = "pending"
  /\ loops' = [loops EXCEPT ![l].st = "stopped"]
  /\ IF VideoRef
     THEN /\ streams # <<>>
          /\ cleanup
          /\ scans' = Append(scans, [onScan |-> loops[l].onScan, activation |-> activation])
     ELSE UNCHANGED <<scanning, streams, streamRef, scans>>
  /\ UNCHANGED <<scannerMounted, isActive, onScan, cameraCalls, activation, outsideScanner>>

NextScanner ==
  \/ \E active \in BOOLEAN : mountScanner(active)
  \/ \E active \in BOOLEAN : setActive(active)
  \/ unmountScanner
  \/ parentRender
  \/ \E k \in 1..Len(cameraCalls) : getUserMediaDone(k)
  \/ \E k \in 1..Len(cameraCalls) : playDone(k)
  \/ \E l \in 1..Len(loops) : frameCallback(l)

SpecScanner == Init /\ [][NextScanner]_vars

\* -------------------------------------------------------------------- App
\* The texts a scanned code can carry.
ScanTexts == {"a", "b", "c"}

\* analyzeScannedContent(data): the text the analysis resolves to.
analysisOf(data) == "analysis of " \o data

\* The home-screen button that opens the receive screen.
openReceive ==
  /\ appMode = "HOME"
  /\ appMode' = "RECEIVE"
  /\ UNCHANGED <<scannedResult, isAnalyzing, history, analyses, outsideApp>>

\* The back arrow of the receive screen.
backHome ==
  /\ appMode = "RECEIVE"
  /\ appMode' = "HOME"
  /\ UNCHANGED <<scannedResult, isAnalyzing, history, analyses, outsideApp>>

\* App.handleScan(data) up to its await, called by the Scanner of the
\* receive screen, which is active while no result is shown.
appHandleScan(data) ==
  /\ appMode = "RECEIVE"
  /\ scannedResult = NoItem
  /\ Len(analyses) < MaxScans
  /\ isAnalyzing' = TRUE
  /\ scannedResult' = [id |-> "temp", content |-> data, type |-> "received",
                       aiAnalysis |-> ""]
  /\ analyses' = Append(analyses, [data |-> data, pending |-> TRUE])
  /\ UNCHANGED <<appMode, history, outsideApp>>

\* addToHistory(content, type, analysis): the new item, with a fresh id.
newItem(content, type, analysis) ==
  [id |-> "item" \o ToString(Len(history) + 1), content |-> content, type |-> type,
   aiAnalysis |-> analysis]

\* The rest of handleScan call k, after analyzeScannedContent resolves.
analysisDone(k) ==
  /\ analyses[k].pending
  /\ analyses' = [analyses EXCEPT ![k].pending = FALSE]
  /\ LET savedItem == newItem(analyses[k].data, "received", analysisOf(analyses[k].data))
     IN /\ history' = <<savedItem>> \o history
        /\ scannedResult' = savedItem
  /\ isAnalyzing' = FALSE
  /\ UNCHANGED <<appMode, outsideApp>>

\* The close button of the result modal.
closeResult ==
  /\ appMode = "RECEIVE"
  /\ scannedResult # NoItem
  /\ scannedResult' = NoItem
  /\ appMode' = "HOME"
  /\ UNCHANGED <<isAnalyzing, history, analyses, outsideApp>>

\* The 'scan next' button of the result modal.
scanNext ==
  /\ appMode = "RECEIVE"
  /\ scannedResult # NoItem
  /\ scannedResult' = NoItem
  /\ appMode' = "RECEIVE"
  /\ UNCHANGED <<isAnalyzing, history, analyses, outsideApp>>

NextApp ==
  \/ openReceive
  \/ backHome
  \/ \E data \in ScanTexts : appHandleScan(data)
  \/ \E k \in 1..Len(analyses) : analysisDone(k)
  \/ closeResult
  \/ scanNext

SpecApp == Init /\ [][NextApp]_vars

\* --------------------------------------------------- upload and Generator
\* The versions of uploadFile in the repository: services/uploadService.ts
\* (file.io only) and the two of unnamed/part_002 (file.io, then
\* tmpfiles.org or transfer.sh).
Variants == {"single", "tmpfiles", "transfersh"}

Fallback(variant) == IF variant = "tmpfiles" THEN "tmpfiles.org" ELSE "transfer.sh"

\* The file sizes tried: around the limit.
Sizes == {MAX_FILE_SIZE - 1, MAX_FILE_SIZE, MAX_FILE_SIZE + 1}

\* Mutant: a file of exactly the limit is rejected too.
TooLargeOrEqual(size) == size >= MAX_FILE_SIZE

\* The size test of uploadFile.
TooLarge(size) == size > MAX_FILE_SIZE

\* A fetch to a service, not yet answered.
Request(service) == [service |-> service, result |-> "pending"]

\* uploadFile(file) up to its first await: the size test throws, or the
\* request to file.io is made.
uploadFile(variant, size, caller) ==
  IF TooLarge(size)
  THEN [variant |-> variant, size |-> size, caller |-> caller, pc |-> "thrown",
        requests |-> <<>>, link |-> "", message |-> "tooLarge", settled |-> FALSE]
  ELSE [variant |-> variant, size |-> size, caller |-> caller, pc |-> "primary",
        requests |-> <<Request("file.io")>>, link |-> "", message |-> "",
        settled |-> FALSE]

\* The link a service answers with, as uploadFile returns it (the
\* tmpfiles.org URL is rewritten to its direct-download form).
LinkOf(service) ==
  IF service = "tmpfiles.org" THEN "https://tmpfiles.org/dl/1" ELSE "https://" \o service \o "/1"

\* A caller other than the Generator calls uploadFile.
callUploadFile(variant, size) ==
  /\ Len(uploads) < MaxUploads
  /\ uploads' = Append(uploads, uploadFile(variant, size, "direct"))
  /\ UNCHANGED <<input, isUploading, generatedQR, fileError, uploadStatus, saved,
                 outsideUpload>>

\* Generator.handleFileSelect up to its await, for a picked file of the
\* given size (the picker button is disabled while isUploading).
handleFileSelect(variant, size) ==
  /\ ~isUploading
  /\ Len(uploads) < MaxUploads
  /\ generatedQR' = "null"
  /\ input' = ""
  /\ saved' = saved
  /\ IF size > GeneratorLimit
     THEN /\ fileError' = "over50MB"
          /\ uploadStatus' = "null"
          /\ UNCHANGED <<isUploading, uploads>>
     ELSE /\ fileError' = "null"
          /\ isUploading' = TRUE
          /\ uploadStatus' = IF variant = "single" THEN "preparing" ELSE "primary"
          /\ uploads' = Append(uploads, uploadFile(variant, size, "generator"))
  /\ UNCHANGED outsideUpload

\* Mutant: the fallback is tried whatever the primary service answered.
primaryDoneAlwaysFallback(c, ok) ==
  /\ uploads[c].pc = "primary"
  /\ LET u == [uploads[c] EXCEPT !.requests[1].result = IF ok THEN "ok" ELSE "fail"]
     IN /\ uploads' = [uploads EXCEPT ![c] =
             IF u.variant = "single"
             THEN IF ok THEN [u EXCEPT !.pc = "returned", !.link = LinkOf("file.io")]
                  ELSE [u EXCEPT !.pc = "thrown", !.message = "uploadError"]
             ELSE [u EXCEPT !.pc = "fallback",
                            !.requests = Append(@, Request(Fallback(u.variant)))]]
        /\ uploadStatus' = IF u.caller = "generator" /\ u.variant # "single"
                           THEN "fallback" ELSE uploadStatus
  /\ UNCHANGED <<input, isUploading, generatedQR, fileError, saved, outsideUpload>>

\* The request to file.io of call c is answered (ok: response.ok and
\* data.success; otherwise the try block throws).  On failure the versions
\* with a fallback report the retry and make the second request; the
\* single-service version throws.
primaryDone(c, ok) ==
  /\ uploads[c].pc = "primary"
  /\ LET u == [uploads[c] EXCEPT !.requests[1].result = IF ok THEN "ok" ELSE "fail"]
     IN /\ uploads' = [uploads EXCEPT ![c] =
             IF ok THEN [u EXCEPT !.pc = "returned", !.link = LinkOf("file.io")]
             ELSE IF u.variant = "single"
             THEN [u EXCEPT !.pc = "thrown", !.message = "uploadError"]
             ELSE [u EXCEPT !.pc = "fallback",
                            !.requests = Append(@, Request(Fallback(u.variant)))]]
        /\ uploadStatus' = IF ~ok /\ u.caller = "generator" /\ u.variant # "single"
                           THEN "fallback" ELSE uploadStatus
  /\ UNCHANGED <<input, isUploading, generatedQR, fileError, saved, outsideUpload>>

\* The request to the fallback service of call c is answered.
fallbackDone(c, ok) ==
  /\ uploads[c].pc = "fallback"
  /\ LET u == [uploads[c] EXCEPT !.requests[2].result = IF ok THEN "ok" ELSE "fail"]
     IN uploads' = [uploads EXCEPT ![c] =
          IF ok THEN [u EXCEPT !.pc = "returned", !.link = LinkOf(Fallback(u.variant))]
          ELSE [u EXCEPT !.pc = "thrown", !.message = "uploadFailed"]]
  /\ UNCHANGED <<input, isUploading, generatedQR, fileError, uploadStatus, saved,
                 outsideUpload>>

\* The rest of handleFileSelect after `await uploadFile(...)` of call c
\* settles: the try body, or the catch, and the finally.
handleFileSelectDone(c) ==
  /\ uploads[c].caller = "generator"
  /\ uploads[c].pc \in {"returned", "thrown"}
  /\ ~uploads[c].settled
  /\ uploads' = [uploads EXCEPT ![c].settled = TRUE]
  /\ IF uploads[c].pc = "returned"
     THEN /\ input' = uploads[c].link
          /\ uploadStatus' = "done"
          /\ generatedQR' = uploads[c].link
          /\ saved' = Append(saved, uploads[c].link)
          /\ fileError' = fileError
     ELSE /\ fileError' = uploads[c].message
          /\ uploadStatus' = "null"
          /\ UNCHANGED <<input, generatedQR, saved>>
  /\ isUploading' = FALSE
  /\ UNCHANGED outsideUpload

NextUpload ==
  \/ \E variant \in Variants, size \in Sizes : callUploadFile(variant, size)
  \/ \E variant \in Variants, size \in Sizes : handleFileSelect(variant, size)
  \/ \E c \in 1..Len(uploads), ok \in BOOLEAN : primaryDone(c, ok)
  \/ \E c \in 1..Len(uploads), ok \in BOOLEAN : fallbackDone(c, ok)
  \/ \E c \in 1..Len(uploads) : handleFileSelectDone(c)

SpecUpload == Init /\ [][NextUpload]_vars

\* ------------------------------------------------------------ properties
OpenConns == {c \in 1..Len(conns) : conns[c].st = "open"}
PendingConns == {c \in 1..Len(conns) : conns[c].st = "pending"}
LivePeers == {p \in 1..Len(peers) : peers[p].live}

\* C1: in every reachable state at most one data channel is open (and so
\* feeding the message log through its 'data' handler), and in mode
\* 'connected' the channel held in `connection` is that one open channel.
C1_SingleChannel ==
  /\ Cardinality(OpenConns) <= 1
  /\ mode = "connected" => connection # 0 /\ OpenConns = {connection}

\* C2: a start (startHosting, startScanning, ID regenerate) leaves exactly
\* one live signaling peer, the one just created, and nothing of an earlier
\* peer: every connection of an earlier peer, open or pending, is closed.
C2_StartInvalidatesPrevious ==
  /\ [](/\ Cardinality(LivePeers) <= 1
        /\ \A p \in LivePeers : p = peerRef
        /\ \A c \in 1..Len(conns) : conns[c].peer # peerRef => conns[c].st = "closed")
  /\ [][Len(peers') > Len(peers) =>
          /\ LivePeers' = {Len(peers')}
          /\ OpenConns' = {} /\ PendingConns' = {}]_vars

\* C2 witness: the regenerate button replaced a peer that had a connection.
C2_Witness ==
  /\ Len(peers) = 2 /\ peers[2].live /\ peers[2].capMode = "host"
  /\ \E c \in 1..Len(conns) : conns[c].peer = 1 /\ conns[c].st = "closed"

\* A step in which the callback of timer t runs.
Fires(t) == timers[t].st = "armed" /\ timers'[t].st = "fired"

\* The timer armed for connection c (0 when there is none).
TimerOf(c) ==
  IF \E t \in 1..Len(timers) : timers[t].conn = c
  THEN CHOOSE t \in 1..Len(timers) : timers[t].conn = c ELSE 0

\* C3: when the deadline of the pending outbound attempt of a guest in
\* 'connecting' fires, the session leaves 'connecting' with the timeout
\* fault recorded and the attempt closed.
C3_TimeoutLeavesConnecting ==
  [][\A t \in 1..Len(timers) :
       (Fires(t) /\ mode = "connecting" /\ conns[timers[t].conn].st = "pending")
       => /\ mode' # "connecting"
          /\ error' = "timeout"
          /\ conns'[timers[t].conn].st = "closed"]_vars

\* C4: the connection of an attempt whose deadline has fired, and every
\* connection of a destroyed peer, is closed; a closed connection never
\* opens, is never bound to `connection`, and 'connected' is only ever
\* entered by binding a connection that was pending.
C4_LateOpenDiscarded ==
  /\ [](/\ \A t \in 1..Len(timers) :
             timers[t].st = "fired" => conns[timers[t].conn].st = "closed"
        /\ \A c \in 1..Len(conns) :
             ~peers[conns[c].peer].live => conns[c].st = "closed"
        /\ \A c \in 1..Len(conns) : conns[c].st = "closed" => connection # c)
  /\ [][/\ \A c \in 1..Len(conns) :
             conns[c].st = "closed" => conns'[c].st = "closed" /\ connection' # c
        /\ (mode # "connected" /\ mode' = "connected") =>
             connection' # 0 /\ conns[connection'].st = "pending"]_vars

\* C4 witness: the deadline of the current attempt has fired and closed it.
C4_Witness ==
  /\ mode = "connecting" /\ error = "timeout"
  /\ \E t \in 1..Len(timers) :
       timers[t].st = "fired" /\ conns[timers[t].conn].st = "closed"

\* C5: whenever a timer callback reports the timeout fault to a session in
\* 'connecting', at least handshakeTimeoutMs have passed since that attempt
\* entered 'connecting'.
C5_TimeoutNotEarly ==
  [][\A t \in 1..Len(timers) :
       (Fires(t) /\ mode = "connecting" /\ error' = "timeout")
       => elapsed >= handshakeTimeoutMs]_vars

\* C6: resetConnection, from any mode, ends in 'select' with no channel
\* bound, no open channel, no pending connection, no live peer, no identity
\* and no recorded error; and on a state that already looks like that it
\* changes nothing (reset twice = reset once).
ResetPost ==
  /\ mode = "select" /\ connection = 0 /\ error = "null" /\ peerId = 0
  /\ OpenConns = {} /\ PendingConns = {} /\ LivePeers = {}

C6_ResetEndsIdle ==
  [][resetConnection => ResetPost' /\ (ResetPost => UNCHANGED vars)]_vars

\* C6 witness: a reset has cancelled a pending outbound attempt.
C6_Witness ==
  /\ ResetPost
  /\ peerRef # 0 /\ ~peers[peerRef].live
  /\ \E c \in 1..Len(conns) : conns[c].peer = peerRef /\ conns[c].dir = "out"

\* The message a receiver is expected to show for envelope e.
Matches(m, e, u) ==
  /\ m.sender = "peer"
  /\ m.type = e.type
  /\ e.type = "text" => m.content = e.content
  /\ e.type = "file" => /\ m.fileData.name = e.fileName
                        /\ m.fileData.size = e.fileSize
                        /\ m.fileData.type = e.fileType
                        /\ m.fileData.blobUrl \in 1..Len(u)
                        /\ u[m.fileData.blobUrl] = e.file

RxOn(c) == SelectSeq(rx, LAMBDA x : x.conn = c)
EnvOf(xs) == [i \in 1..Len(xs) |-> xs[i].env]

\* C7: on an open channel the envelopes delivered so far, followed by those
\* in flight, are what the remote peer sent, in its send order; and the
\* delivery of an envelope built by sendMessage / sendFile appends exactly
\* one message, at the end of the log, with sender 'peer' and the type,
\* content and file metadata of the envelope.
C7_RoundTrip ==
  /\ [](\A c \in OpenConns : EnvOf(RxOn(c)) \o conns[c].inq = conns[c].rsent)
  /\ [][(Len(rx') = Len(rx) + 1 /\ rx'[Len(rx')].env \in WellFormed) =>
          /\ Len(messages') = Len(messages) + 1
          /\ SubSeq(messages', 1, Len(messages)) = messages
          /\ Matches(messages'[Len(messages')], rx'[Len(rx')].env, urls')]_vars

\* C7 witness: a text and then a file were delivered and shown in that order.
C7_Witness ==
  /\ Len(rx) = 2 /\ Len(messages) = 2
  /\ rx[1].env = TextEnvelope("hi") /\ rx[2].env \in WellFormed /\ rx[2].env.type = "file"
  /\ messages[1].type = "text" /\ messages[2].type = "file"
  /\ messages[1].sender = "peer" /\ messages[2].sender = "peer"

\* C8: every received file message was built from bytes whose length is the
\* declared fileSize (an envelope with a different length appends nothing).
C8_SizeChecked ==
  \A i \in 1..Len(messages) :
    (messages[i].sender = "peer" /\ messages[i].type = "file")
    => Len(urls[messages[i].fileData.blobUrl]) = messages[i].fileData.size

\* C9: when a pending connection opens, the session becomes 'connected'
\* with that connection bound and the deadline armed for it is disarmed; a
\* disarmed deadline never fires; and the delivery of the text envelope
\* 'hi' to a connected session appends exactly the message
\* {sender: peer, type: text, content: 'hi'}.
C9_HandshakeCompletes ==
  [][/\ \A c \in 1..Len(conns) :
          (conns[c].st = "pending" /\ conns'[c].st = "open") =>
             /\ mode' = "connected" /\ connection' = c /\ error' = "null"
             /\ connectionTimeoutRef' = 0
             /\ TimerOf(c) # 0 => timers'[TimerOf(c)].st = "cleared"
     /\ \A t \in 1..Len(timers) :
          timers[t].st = "cleared" => timers'[t].st = "cleared"
     /\ (Len(rx') = Len(rx) + 1 /\ rx'[Len(rx')].env = TextEnvelope("hi")) =>
          /\ mode' = "connected"
          /\ messages' = Append(messages, [id |-> Len(messages) + 1, sender |-> "peer",
                                           type |-> "text", content |-> "hi",
                                           fileData |-> NoFile])]_vars

\* C9 witness: a guest whose attempt opened before the deadline has
\* received the text 'hi'.
C9_Witness ==
  /\ mode = "connected" /\ connection # 0
  /\ conns[connection].dir = "out"
  /\ timers[TimerOf(connection)].st = "cleared"
  /\ timers[TimerOf(connection)].remaining < handshakeTimeoutMs
  /\ Len(messages) = 1 /\ messages[1].content = "hi" /\ messages[1].sender = "peer"

\* C10: when the channel bound to a connected session closes, the session
\* leaves 'connected' and `connection` becomes null; `connection` never
\* refers to a channel that is not open.
C10_CloseUnbinds ==
  /\ [](connection # 0 => conns[connection].st = "open")
  /\ [][\A c \in 1..Len(conns) :
          (mode = "connected" /\ connection = c /\ conns'[c].st = "closed")
          => mode' # "connected" /\ connection' = 0]_vars

\* C10 witness: the bound channel of a connected session has closed.
C10_Witness ==
  /\ mode = "select" /\ status = "lost" /\ connection = 0
  /\ \E c \in 1..Len(conns) : conns[c].st = "closed"
  /\ peerRef # 0 /\ peers[peerRef].live

\* C11: a session in 'select' holds no live signaling peer and exposes no
\* identity of an ended session, and it never becomes 'connected' without
\* a new start in between.
C11_EndedSessionReleased ==
  /\ [](mode = "select" => LivePeers = {})
  /\ [][mode = "select" => mode' # "connected"]_vars

\* C12: a peer 'error' event received in host, initializing_client, scan or
\* connecting moves the session out of that state with the fault attached.
C12_SignalingFaultFails ==
  [][(/\ \E p \in 1..Len(peers), type \in PeerErrorInputs : PeerError(p, type)
      /\ mode \in {"host", "initializing_client", "scan", "connecting"})
     => (mode' # mode /\ error' # "null")]_vars

\* C13: a conn 'error' event on the bound channel of a connected session
\* ends the session on both roles: it leaves 'connected' and the channel
\* reference is cleared.
C13_ChannelFaultFatal ==
  [][(/\ mode = "connected"
      /\ connection # 0
      /\ ConnFault(connection) \/ ConnError(connection))
     => (mode' # "connected" /\ connection' = 0)]_vars

\* C14: a new signaling peer is constructed only by startHosting,
\* startScanning or the regenerate button, and an outbound connect request
\* is issued only by a scan; no fault, timeout or close event does either.
C14_NoAutomaticRetry ==
  /\ [][Len(peers') > Len(peers) => (startHosting \/ startScanning \/ regenerate)]_vars
  /\ [][(\E c \in 1..Len(conns') : c > Len(conns) /\ conns'[c].dir = "out")
        => \E id \in Remotes : handleScan(id)]_vars

\* The handshake timed out, its channel was closed and a peer error arrived
\* afterwards: still the one peer and the one connect request of the scan.
C14_Witness ==
  /\ error = "peerUnavailable"
  /\ Len(timers) = 1 /\ timers[1].st = "fired"
  /\ Len(conns) = 1 /\ conns[1].st = "closed"
  /\ Len(peers) = 1

\* C15: the message log shrinks only in a reset step, and a reset step
\* leaves it empty, so no message of an earlier session is in the log of a
\* session started after a reset.
C15_ResetEmptiesLog ==
  /\ [][Len(messages') < Len(messages) => resetClick]_vars
  /\ [][resetClick => messages' = <<>>]_vars

\* C16: the guest is on the scan screen only when the peer constructed by
\* its start has received 'open', and every outbound connection is created
\* on such a peer.
C16_ScanAfterIdentity ==
  /\ [](mode = "scan" => peerRef # 0 /\ peers[peerRef].opened)
  /\ [][\A c \in 1..Len(conns') :
          (c > Len(conns) /\ conns'[c].dir = "out") => peers[conns'[c].peer].opened]_vars

\* C17: every inbound connection that has not opened yet has a deadline
\* armed for it.
C17_InboundDeadline ==
  \A c \in 1..Len(conns) :
    (conns[c].dir = "in" /\ conns[c].st = "pending") => TimerOf(c) # 0

\* C18: an exposed identity is the one issued to the live peer held in
\* peerRef.
C18_IdentityCurrent ==
  peerId # 0 => (peerId = peerRef /\ peers[peerRef].live /\ peers[peerRef].opened)

\* The error texts of the fixed taxonomy.
Taxonomy ==
  {"timeout", "connectFailed", "hostConnError", "peerUnavailable", "disconnected",
   "network", "browserIncompatible", "serverError"}

\* C19: the error shown is null or a text of the fixed taxonomy, never one
\* built from err.type.
C19_TaxonomyOnly == error \in Taxonomy \cup {"null"}

Last(q) == q[Len(q)]

\* The local message m is the echo of the envelope e.
Echoes(m, e) ==
  /\ m.sender = "me"
  /\ m.type = e.type
  /\ e.type = "text" => m.content = e.content /\ m.fileData = NoFile
  /\ e.type = "file" => /\ m.fileData.name = e.fileName
                        /\ m.fileData.size = e.fileSize
                        /\ m.fileData.type = e.fileType

\* The connections that transmit an envelope in this step.
Transmitting ==
  {c \in 1..Len(conns) : c <= Len(conns') /\ Len(conns'[c].outq) > Len(conns[c].outq)}

\* A local message is appended in this step.
EchoAppended ==
  /\ Len(messages') > Len(messages)
  /\ messages'[Len(messages')].sender = "me"

\* C20: a step appends a local message exactly when it transmits an
\* envelope; it is then one message and one envelope, on the bound channel,
\* the message the echo of the envelope; a send of blank text changes
\* nothing.
C20_LocalEcho ==
  /\ [][EchoAppended <=> Transmitting # {}]_vars
  /\ [][EchoAppended =>
         /\ Len(messages') = Len(messages) + 1
         /\ Transmitting = {connection}
         /\ conns'[connection].outq =
              Append(conns[connection].outq, Last(conns'[connection].outq))
         /\ Echoes(messages'[Len(messages')], Last(conns'[connection].outq))]_vars
  /\ [][sendMessage(Blank) => (messages' = messages /\ conns' = conns)]_vars

\* A text and a file were sent: two local messages in the log, their two
\* envelopes on the bound channel, nothing delivered to this side.
C20_Witness ==
  /\ mode = "connected"
  /\ connection # 0
  /\ Len(conns[connection].outq) = 2
  /\ Len(messages) = 2
  /\ \A i \in 1..2 : Echoes(messages[i], conns[connection].outq[i])
  /\ {messages[i].type : i \in 1..2} = {"text", "file"}

\* C21: the object URLs created for file messages are released by a
\* reset: after a reset step the registry holds no URL of the session that
\* ended, so none outlives its session.
C21_UrlsReleased ==
  [][resetClick => urls' = <<>>]_vars

\* The largest file the user can pick.  A fixed ceiling is of use only if
\* it lies below the size of some file a user can pick; this one is then
\* above it.
LargestPick == CHOOSE f \in Files : \A g \in Files : Len(g.bytes) <= Len(f.bytes)

\* C22: a file above the ceiling is refused before it is sent: no file
\* envelope of the size of the largest pickable file is on a channel, and
\* no local file message of that size is in the log.
C22_OversizeNotSent ==
  /\ \A c \in 1..Len(conns) : \A i \in 1..Len(conns[c].outq) :
       conns[c].outq[i].type = "file"
         => conns[c].outq[i].fileSize < Len(LargestPick.bytes)
  /\ \A i \in 1..Len(messages) :
       (messages[i].sender = "me" /\ messages[i].type = "file")
         => messages[i].fileData.size < Len(LargestPick.bytes)

\* C23: every step leaves the message log as it is or appends exactly one
\* message to it; the messages already in the log keep their place and
\* their content.
C23_AppendOnly ==
  [][\/ messages' = messages
     \/ /\ Len(messages') = Len(messages) + 1
        /\ SubSeq(messages', 1, Len(messages)) = messages]_vars

\* A local send and a remote receive have both been logged.
C23_Witness ==
  /\ Len(messages) = 2
  /\ {messages[i].sender : i \in 1..2} = {"me", "peer"}
  /\ messages[1].id # messages[2].id

\* C24: the connection created for a decoded text carries exactly that
\* text as the remote identity, and it is requested in reliable mode.
C24_IdentityVerbatim ==
  [][\A data \in QrPayloads :
       (scanFrame(data) /\ Len(conns') > Len(conns))
         => /\ conns'[Len(conns')].dir = "out"
            /\ conns'[Len(conns')].remote = data
            /\ conns'[Len(conns')].reliable]_vars

\* A code whose text has surrounding blanks was scanned and the connect
\* request went out to that text.
C24_Witness ==
  \E c \in 1..Len(conns) :
    conns[c].dir = "out" /\ conns[c].remote = " r1 " /\ conns[c].reliable

\* C25: the mode is 'connected' exactly when a channel is bound.
C25_ConnectedIffBound == (mode = "connected") <=> (connection # 0)

\* The deadline timers that can still run their callback.
ArmedTimers == {t \in 1..Len(timers) : timers[t].st = "armed"}

\* C26: at most one deadline timer is armed, and only while the session is
\* in 'connecting'.
C26_OneDeadline ==
  /\ Cardinality(ArmedTimers) <= 1
  /\ ArmedTimers # {} => mode = "connecting"

\* The modes of a session started with startScanning, before it connects.
GuestModes == {"initializing_client", "scan", "connecting"}

\* C27: a session in a guest mode becomes 'connected' only by the open of
\* an outbound connection, never by an inbound one.
C27_GuestIgnoresOffers ==
  [][(mode \in GuestModes /\ mode' = "connected")
       => (connection' # 0 /\ conns'[connection'].dir = "out")]_vars

\* C28: the expiry of a deadline timer does not replace a fault that a
\* peer 'error' or a channel 'error' has recorded.
C28_FaultKept ==
  [][((error \notin {"null", "timeout"}) /\ (\E t \in 1..Len(timers) : TimerFire(t)))
       => error' = error]_vars

\* C29: the delivery of an envelope whose type is neither 'text' nor
\* 'file' changes neither the log, the mode nor the bound channel, and the
\* channel stays open with the envelopes behind it still queued.
C29_UnknownTypeIgnored ==
  [][(Len(rx') = Len(rx) + 1 /\ rx'[Len(rx')].env.type \notin {"text", "file"}) =>
       LET c == rx'[Len(rx')].conn IN
       /\ messages' = messages /\ urls' = urls
       /\ mode' = mode /\ connection' = connection
       /\ status' = status /\ error' = error
       /\ conns'[c].st = "open"
       /\ conns'[c].inq = Tail(conns[c].inq)]_vars

\* An envelope of an unknown type was delivered, and the text sent after it
\* on the same channel was delivered and logged.
C29_Witness ==
  /\ Len(rx) = 2
  /\ rx[1].env.type = "ping"
  /\ rx[2].env = TextEnvelope("hi")
  /\ rx[1].conn = rx[2].conn
  /\ mode = "connected" /\ connection = rx[1].conn
  /\ Len(messages) = 1
  /\ messages[1].sender = "peer" /\ messages[1].content = "hi"

\* C30: once the component is unmounted no signaling peer is alive, no
\* channel is open and no deadline timer is armed.
C30_UnmountReleasesAll ==
  ~mounted => (LivePeers = {} /\ OpenConns = {} /\ ArmedTimers = {})

\* C31: in one activation of the Scanner onScan is called at most once.
C31_OneScanPerActivation ==
  \A i, j \in 1..Len(scans) :
    i # j => scans[i].activation # scans[j].activation

\* C32: while the Scanner is unmounted or not active, none of the camera
\* streams it acquired is live.
C32_NoStreamLeft ==
  ~VideoRef => \A k \in 1..Len(streams) : ~streams[k]

\* C33: when the analysis of a scan completes after the user has dismissed
\* its result, no result is displayed (so the scanner stays active); and
\* every completion puts exactly one 'received' item, with the scanned
\* text, at the head of the history.
C33_DismissedStaysDismissed ==
  /\ [][\A k \in 1..Len(analyses) :
          (analysisDone(k) /\ scannedResult = NoItem) => scannedResult' = NoItem]_vars
  /\ [][\A k \in 1..Len(analyses) :
          analysisDone(k) =>
            /\ Len(history') = Len(history) + 1
            /\ SubSeq(history', 2, Len(history')) = history
            /\ history'[1].type = "received"
            /\ history'[1].content = analyses[k].data]_vars

\* The calls of an uploadFile that has a fallback service.
FallbackCalls == {c \in 1..Len(uploads) : uploads[c].variant # "single"}

\* The order of the attempts of call c: file.io first, the fallback second
\* and only after file.io failed, and the link returned is that of the
\* first service that answered ok.
AttemptsInOrder(c) ==
  LET r == uploads[c].requests IN
  /\ Len(r) <= 2
  /\ Len(r) >= 1 => r[1].service = "file.io"
  /\ Len(r) = 2 => r[1].result = "fail" /\ r[2].service = Fallback(uploads[c].variant)
  /\ uploads[c].pc = "returned" =>
       /\ r[Len(r)].result = "ok"
       /\ uploads[c].link = LinkOf(r[Len(r)].service)

\* Call c has made exactly one attempt on each service and both failed.
BothFailed(c) ==
  /\ Len(uploads[c].requests) = 2
  /\ \A k \in 1..2 : uploads[c].requests[k].result = "fail"

\* C34 as stated: uploadFile with fallback tries the primary first, the fallback only after the primary failed, returns the link of the first service that succeeds, and throws only when both have failed after exactly one attempt on each.
C34_ThrowsOnlyAfterBoth ==
  \A c \in FallbackCalls :
    /\ AttemptsInOrder(c)
    /\ uploads[c].pc = "thrown" => BothFailed(c)

\* C34 amended: for a file within the size limit, uploadFile with fallback tries the primary first, the fallback only after the primary failed, returns the link of the first service that succeeds, and throws only when both have failed after exactly one attempt on each; for a file over the limit it throws without any attempt.
C34_FallbackOrder ==
  \A c \in FallbackCalls :
    /\ AttemptsInOrder(c)
    /\ uploads[c].pc = "thrown" =>
         IF uploads[c].size > MAX_FILE_SIZE
         THEN uploads[c].requests = <<>>
         ELSE BothFailed(c)

C34_Witness ==
  /\ \E c \in FallbackCalls : uploads[c].pc = "thrown" /\ BothFailed(c)
  /\ \E c \in FallbackCalls :
       /\ uploads[c].pc = "returned"
       /\ uploads[c].link = LinkOf(Fallback(uploads[c].variant))

\* C35: a file larger than 50 MB is rejected with an error before any network request is made, by uploadFile and by Generator.handleFileSelect (which then does not call uploadFile, does not set isUploading and generates no QR code); a file of exactly 50 MB is accepted by both.
C35_SizeLimit ==
  /\ [](\A c \in 1..Len(uploads) :
          IF uploads[c].size > 50 * 1024 * 1024
          THEN /\ uploads[c].pc = "thrown"
               /\ uploads[c].requests = <<>>
               /\ uploads[c].caller # "generator"
          ELSE uploads[c].requests # <<>>)
  /\ [][\A variant \in Variants, size \in Sizes : handleFileSelect(variant, size) =>
           IF size > 50 * 1024 * 1024
           THEN /\ uploads' = uploads
                /\ isUploading' = FALSE
                /\ generatedQR' = "null"
                /\ fileError' # "null"
           ELSE /\ Len(uploads') = Len(uploads) + 1
                /\ uploads'[Len(uploads')].requests # <<>>
                /\ isUploading'
                /\ fileError' = "null"]_vars

C35_Witness ==
  /\ fileError = "over50MB"
  /\ ~isUploading
  /\ generatedQR = "null"
  /\ \E c \in 1..Len(uploads) :
       /\ uploads[c].size = 50 * 1024 * 1024 + 1
       /\ uploads[c].pc = "thrown"
  /\ \E c \in 1..Len(uploads) :
       /\ uploads[c].size = 50 * 1024 * 1024
       /\ uploads[c].caller = "generator"
       /\ uploads[c].pc = "returned"
====
